---- MODULE Spec2Model ----
(***************************************************************************)
(* A model of the two pull-request comment pipelines of infra-boomer:      *)
(*   scripts/terraform_comment.py       (plan pipeline)                    *)
(*   scripts/terraform_lint_comment.py  (lint pipeline)                    *)
(*                                                                         *)
(* Four specifications share this module:                                  *)
(*   Spec         CI jobs running the two mains against one pull request's *)
(*                comment list on the forge (the only shared state)        *)
(*   SpecPaging   list_all_comments / find_existing_comment_id, page by    *)
(*                page                                                     *)
(*   SpecDetails  build_details_html, row by row                           *)
(*   SpecParse    parse_tflint_output on bounded lint texts                *)
(* Each specification holds the variables of the others constant.          *)
(***************************************************************************)
EXTENDS Integers, Sequences, FiniteSets, TLC

VARIABLES
  comments,   \* the pull request's issue comments on the forge, oldest first
  nextId,     \* the id the forge gives the next created comment
  jobs,       \* one record per CI job (one process running a main())
  pg,         \* SpecPaging: the state of one find_existing_comment_id call
  dt,         \* SpecDetails: the state of one build_details_html call
  ps          \* SpecParse: the state of one parse_tflint_output call

vars == <<comments, nextId, jobs, pg, dt, ps>>

Idle == [pc |-> "off"]

(***************************************************************************)
(* Texts.  A text is a sequence of atoms (strings); Python's `s in body`   *)
(* is contiguous-subsequence containment on the atoms.                     *)
(***************************************************************************)
Contains(body, s) ==
  \E i \in 1..(Len(body) - Len(s) + 1) : SubSeq(body, i, i + Len(s) - 1) = s

\* TF_ACTIONS_WORKING_DIR, the same directory for both pipelines.
WD == <<"infra">>

\* PR_COMMENT_MARKER is left unset, so the plan marker is synthesized.
PlanMarker == <<"<!-- tf-plan:">> \o WD \o <<" -->">>

LintMarker == <<"<!-- tflint:">> \o WD \o <<" -->">>

\* GITHUB_RUN_ID of job j: every CI run has its own.
RunId(j) == <<"run", ToString(j)>>

\* terraform_comment.py: body of main, with header, summary, details
\* (which embed the footer) and the trailing marker.
PlanBody(j) ==
  <<"## Terraform Plan for ">> \o WD \o PlanMarker
    \o <<"### Terraform Plan Summary", "<details>", "Dir: ">> \o WD
    \o RunId(j) \o <<"</details>">> \o PlanMarker

\* terraform_lint_comment.py: body of main.
LintBody(j) ==
  <<"## TFLint for ">> \o WD \o <<"### TFLint Summary", "<details>", "</details>">>
    \o RunId(j) \o <<"Working Dir: ">> \o WD \o RunId(j) \o LintMarker

\* Comments other people left on the pull request.
HumanPlain == <<"LGTM">>

HumanMention == <<"please re-run ">> \o WD \o <<" after the rebase">>

Comment(id, body) == [id |-> id, body |-> body]

(***************************************************************************)
(* The forge.  One pull request; its comment list is the only state the    *)
(* jobs share.  The lists of this model are shorter than one page, so a    *)
(* listing is one GET (SpecPaging models the paging).                      *)
(***************************************************************************)
MaxJobs == 2

Jobs == 1..MaxJobs

\* The number of the pull request the jobs run for.
PrNumber == 7

\* Comment lists the pull request may hold before the first job: none of
\* their comments carries a marker.
InitLists ==
  { <<>>,
    <<Comment(1, HumanPlain)>>,
    <<Comment(1, HumanMention)>>,
    <<Comment(1, HumanPlain), Comment(2, HumanMention)>> }

\* The id of the first element of list among the positions hits, as the for
\* loops of find_existing_comment_id return it; 0 is None.
FirstMatch(list, hits) ==
  IF hits = {} THEN 0
  ELSE list[CHOOSE i \in hits : \A k \in hits : i <= k].id

\* terraform_comment.py find_existing_comment_id(pr_number, marker_html)
PlanFindExisting(list, marker_html) ==
  FirstMatch(list, {i \in 1..Len(list) : Contains(list[i].body, marker_html)})

\* terraform_lint_comment.py find_existing_comment_id(pr_number, marker)
LintFindExisting(list, marker) ==
  LET hidden == <<"<!-- tflint:">> \o marker \o <<" -->">>
  IN  FirstMatch(list, {i \in 1..Len(list) :
                          Contains(list[i].body, hidden) \/ Contains(list[i].body, marker)})

(***************************************************************************)
(* The environment of a job, read at import.                               *)
(*   slug    GITHUB_REPOSITORY is set                                      *)
(*   token   GITHUB_TOKEN is set (and not empty)                           *)
(*   create  CREATE_COMMENT = true (plan pipeline)                         *)
(*   del     PR_DELETE_COMMENT = true (lint pipeline)                      *)
(*   event   GITHUB_EVENT_NAME                                             *)
(*   payload what GITHUB_EVENT_PATH holds                                  *)
(*   sha     GITHUB_SHA is set                                             *)
(* A variable that cannot influence the run (the run ends before any read  *)
(* of it decides something) is held at one value.                          *)
(***************************************************************************)
Payloads == {"nofile", "malformed", "pr", "issue", "other"}

PrEvents == {"pull_request", "pull_request_target"}

EnvSpace ==
  [pipeline : {"plan", "lint"}, slug : BOOLEAN, token : BOOLEAN,
   create : BOOLEAN, del : BOOLEAN, event : {"pull_request", "push"},
   payload : Payloads, sha : BOOLEAN]

\* The import fails before main is entered.
ImportFails(e) == ~e.slug \/ (e.pipeline = "lint" /\ ~e.token)

Envs ==
  { e \in EnvSpace :
      /\ e.pipeline = "plan" => ~e.del
      /\ e.pipeline = "lint" => e.create /\ e.sha
      /\ ~e.slug => e.token
      /\ ImportFails(e) => e.event = "pull_request" /\ e.create
      /\ (ImportFails(e) \/ e.event = "push") => e.payload = "pr" /\ ~e.del
      /\ e.event = "push" => e.token /\ e.create
      /\ e.payload \in {"pr", "issue"} => e.sha }

\* A job that has not started; its environment is set when it starts.
NoJob ==
  [pc |-> "idle",
   env |-> [pipeline |-> "plan", slug |-> TRUE, token |-> TRUE, create |-> TRUE,
            del |-> FALSE, event |-> "push", payload |-> "pr", sha |-> TRUE],
   pr |-> 0, existing |-> 0,
   body |-> <<>>, calls |-> <<>>, log |-> <<>>, exc |-> "", after |-> {}]

Log(job, line) == [job EXCEPT !.log = Append(@, line)]

Finish(job) == [job EXCEPT !.pc = "done"]

\* An exception no handler catches: the interpreter prints a traceback and
\* the process exits with a failure status.
Crash(job, exc) == [job EXCEPT !.pc = "crashed", !.exc = exc]

Call(job, op, status) ==
  [job EXCEPT !.calls = Append(@, [op |-> op, status |-> status])]

\* terraform_comment.py get_pr_number, the event payload part: "number",
\* "none" (no usable shape, or no file), or "raise" (caught by its except).
PlanPayloadPr(payload) ==
  CASE payload = "nofile"    -> "none"
    [] payload = "malformed" -> "raise"
    [] payload = "pr"        -> "number"
    [] payload = "issue"     -> "number"
    [] OTHER                 -> "none"

\* terraform_lint_comment.py get_pr_number: json.load is under no try.
LintPayloadPr(payload) ==
  CASE payload = "nofile"    -> "none"
    [] payload = "malformed" -> "raise"
    [] payload = "pr"        -> "number"
    [] OTHER                 -> "none"

NoPr(job) == Finish(Log(job, "::notice::No PR number detected"))

\* terraform_comment.py main, from the token check to the listing.
PlanAfterResolve(j, job) ==
  IF job.env.create /\ ~job.env.token
    THEN Finish(Log(job, "::error::GITHUB_TOKEN is not set"))
    ELSE [Log(job, "::notice::Upserting") EXCEPT !.body = PlanBody(j), !.pc = "list"]

\* terraform_comment.py main and get_pr_number up to the first request.
PlanMain(j, job) ==
  IF job.env.event \notin PrEvents
    THEN Finish(Log(job, "::notice::skipped (not a PR event)"))
    ELSE LET r    == PlanPayloadPr(job.env.payload)
             seen == IF r = "raise"
                       THEN Log(job, "::warning::Failed reading event payload")
                       ELSE job
         IN  IF r = "number" THEN PlanAfterResolve(j, [job EXCEPT !.pr = PrNumber])
             ELSE IF job.env.sha THEN [seen EXCEPT !.pc = "lookup"]
             ELSE NoPr(seen)

\* terraform_lint_comment.py main up to the first request.
LintMain(j, job) ==
  IF job.env.event \notin PrEvents
    THEN Finish(Log(job, "::notice::skipped"))
    ELSE LET r == LintPayloadPr(job.env.payload)
         IN  IF r = "raise" THEN Crash(job, "JSONDecodeError")
             ELSE IF r = "none" THEN NoPr(job)
             ELSE [job EXCEPT !.pr = PrNumber,
                              !.body = IF job.env.del THEN <<>> ELSE LintBody(j),
                              !.pc = "list"]

\* The module-level reads of os.environ[...], then main.
Import(j, job) ==
  IF ~job.env.slug THEN Crash(job, "KeyError")
  ELSE IF job.env.pipeline = "plan" THEN PlanMain(j, job)
  ELSE IF ~job.env.token THEN Crash(job, "KeyError")
  ELSE LintMain(j, job)

(***************************************************************************)
(* The actions of Spec: a job runs from one request to the next.           *)
(***************************************************************************)
Others == <<pg, dt, ps>>

Finished(k) == jobs[k].pc \in {"done", "crashed"}

\* A CI job starts: import, then main up to its first request.
StartWith(j, envs) ==
  /\ jobs[j].pc = "idle"
  /\ \E e \in envs :
       jobs' = [jobs EXCEPT ![j] =
                  Import(j, [NoJob EXCEPT !.env = e, !.pc = "main",
                                          !.after = {k \in Jobs : Finished(k)}])]
  /\ UNCHANGED <<comments, nextId, Others>>

Start(j) == StartWith(j, Envs)

\* terraform_comment.py get_pr_number, the commit-association fallback.
CommitLookup(j) ==
  /\ jobs[j].pc = "lookup"
  /\ \E answer \in {"error", "empty", "found"} :
       LET job == jobs[j]
       IN  jobs' = [jobs EXCEPT ![j] =
             CASE answer = "error" ->
                    NoPr(Log(Call(job, "GET pulls", 500),
                             "::warning::Failed resolving PR via commit association"))
               [] answer = "empty" -> NoPr(Call(job, "GET pulls", 200))
               [] OTHER ->
                    PlanAfterResolve(j, [Call(job, "GET pulls", 200) EXCEPT !.pr = PrNumber])]
  /\ UNCHANGED <<comments, nextId, Others>>

\* What main does with the located id: the branch of its try block.
Dispatch(job, id) ==
  IF job.env.pipeline = "lint" /\ job.env.del
    THEN IF id # 0 THEN [job EXCEPT !.existing = id, !.pc = "delete"]
         ELSE Finish(job)
    ELSE IF id # 0 THEN [job EXCEPT !.existing = id, !.pc = "update"]
         ELSE [job EXCEPT !.pc = "create"]

\* find_existing_comment_id called from main: the listing is under no try.
ListComments(j) ==
  /\ jobs[j].pc = "list"
  /\ \E ok \in BOOLEAN :
       LET job == jobs[j]
           id  == IF job.env.pipeline = "plan"
                    THEN PlanFindExisting(comments, PlanMarker)
                    ELSE LintFindExisting(comments, WD)
       IN  jobs' = [jobs EXCEPT ![j] =
             IF ok THEN Dispatch(Call(job, "GET comments", 200), id)
             ELSE Crash(Call(job, "GET comments", 500), "HTTPError")]
  /\ UNCHANGED <<comments, nextId, Others>>

\* create_comment inside main's try block.
CreateComment(j) ==
  /\ jobs[j].pc = "create"
  /\ \E ok \in BOOLEAN :
       LET job == jobs[j]
       IN  IF ok
             THEN /\ comments' = Append(comments, Comment(nextId, job.body))
                  /\ nextId' = nextId + 1
                  /\ jobs' = [jobs EXCEPT ![j] =
                       Finish(Log(Call(job, "POST comment", 201), "::notice::Created"))]
             ELSE /\ jobs' = [jobs EXCEPT ![j] =
                       Finish(Log(Call(job, "POST comment", 500),
                                  "::error::Failed to upsert"))]
                  /\ UNCHANGED <<comments, nextId>>
  /\ UNCHANGED Others

Live(id) == \E i \in 1..Len(comments) : comments[i].id = id

\* update_comment inside main's try block; the forge answers 404 for a
\* comment deleted since the listing.
UpdateComment(j) ==
  /\ jobs[j].pc = "update"
  /\ \E ok \in BOOLEAN :
       LET job    == jobs[j]
           status == IF ~ok THEN 500 ELSE IF Live(job.existing) THEN 200 ELSE 404
       IN  IF status = 200
             THEN /\ comments' = [i \in 1..Len(comments) |->
                        IF comments[i].id = job.existing
                          THEN Comment(job.existing, job.body) ELSE comments[i]]
                  /\ jobs' = [jobs EXCEPT ![j] =
                       Finish(Log(Call(job, "PATCH comment", 200), "::notice::Updated"))]
             ELSE /\ jobs' = [jobs EXCEPT ![j] =
                       Finish(Log(Call(job, "PATCH comment", status),
                                  "::error::Failed to upsert"))]
                  /\ UNCHANGED comments
  /\ UNCHANGED <<nextId, Others>>

\* A delete_comment that takes only 204 for success.
DeleteRaises_Only204(status) == status # 204

\* delete_comment: raise_for_status is called unless the status is 204 or 404.
DeleteRaises(status) == status \notin {204, 404}

Without(list, id) ==
  LET keep == {i \in 1..Len(list) : list[i].id # id}
      F[n \in 0..Len(list)] ==
        IF n = 0 THEN <<>>
        ELSE IF n \in keep THEN Append(F[n - 1], list[n]) ELSE F[n - 1]
  IN  F[Len(list)]

\* The delete mode of terraform_lint_comment.py main.
DeleteComment(j) ==
  /\ jobs[j].pc = "delete"
  /\ \E ok \in BOOLEAN :
       LET job    == jobs[j]
           status == IF ~ok THEN 500 ELSE IF Live(job.existing) THEN 204 ELSE 404
           called == Call(job, "DELETE comment", status)
       IN  /\ comments' = IF status = 204 THEN Without(comments, job.existing)
                          ELSE comments
           /\ jobs' = [jobs EXCEPT ![j] =
                IF DeleteRaises(status)
                  THEN Finish(Log(called, "::warning::Failed deleting TFLint comment"))
                  ELSE Finish(Log(called, "::notice::Deleted existing TFLint comment"))]
  /\ UNCHANGED <<nextId, Others>>

Init ==
  /\ comments \in InitLists
  /\ nextId = Len(comments) + 1
  /\ jobs = [j \in Jobs |-> NoJob]
  /\ pg = Idle
  /\ dt = Idle
  /\ ps = Idle

Next ==
  \E j \in Jobs :
    \/ Start(j)
    \/ CommitLookup(j)
    \/ ListComments(j)
    \/ CreateComment(j)
    \/ UpdateComment(j)
    \/ DeleteComment(j)

Spec == Init /\ [][Next]_vars

(***************************************************************************)
(* SpecLint: only lint jobs run, on a pull request that may already hold   *)
(* the plan pipeline's comment.                                            *)
(***************************************************************************)
LintEnvs == {e \in Envs : e.pipeline = "lint"}

StartLint(j) == StartWith(j, LintEnvs)

InitLintLists == InitLists \cup { <<Comment(1, HumanPlain), Comment(2, PlanBody(0))>> }

InitLint ==
  /\ comments \in InitLintLists
  /\ nextId = Len(comments) + 1
  /\ jobs = [j \in Jobs |-> NoJob]
  /\ pg = Idle
  /\ dt = Idle
  /\ ps = Idle

NextLint ==
  \E j \in Jobs :
    \/ StartLint(j)
    \/ ListComments(j)
    \/ CreateComment(j)
    \/ UpdateComment(j)
    \/ DeleteComment(j)

SpecLint == InitLint /\ [][NextLint]_vars

(***************************************************************************)
(* Properties of the pipelines.                                            *)
(***************************************************************************)
WithMarker(m) == {i \in 1..Len(comments) : Contains(comments[i].body, m)}

Logged(job, line) == \E i \in 1..Len(job.log) : job.log[i] = line

Alerts(job) ==
  {i \in 1..Len(job.log) :
     job.log[i] \in {"::error::GITHUB_TOKEN is not set", "::error::Failed to upsert",
                     "::warning::Failed deleting TFLint comment",
                     "::warning::Failed reading event payload",
                     "::warning::Failed resolving PR via commit association"}}

\* The run posted its comment: main reached Created or Updated.
Upserted(job) ==
  job.pc = "done" /\ (Logged(job, "::notice::Created") \/ Logged(job, "::notice::Updated"))

MarkerOf(pipeline) == IF pipeline = "plan" THEN PlanMarker ELSE LintMarker

\* Jobs a and b are the only ones that ran, b after a had ended.
InSequence(a, b) ==
  /\ a # b
  /\ a \in jobs[b].after
  /\ \A k \in Jobs \ {a, b} : jobs[k].pc = "idle"

\* C1 (upsert idempotence): when the same pipeline runs twice in sequence on a
\* pull request whose comments carried no marker of it, both runs posting,
\* exactly one comment carries the marker, the first run created it, the
\* second run updated that very comment, and its body is the second run's.
C1_UpsertIdempotence ==
  \A a, b \in Jobs :
    ( /\ InSequence(a, b)
      /\ jobs[a].env.pipeline = jobs[b].env.pipeline
      /\ Upserted(jobs[a])
      /\ Upserted(jobs[b]) )
    => LET hits == WithMarker(MarkerOf(jobs[a].env.pipeline))
       IN  /\ Cardinality(hits) = 1
           /\ Logged(jobs[a], "::notice::Created")
           /\ Logged(jobs[b], "::notice::Updated")
           /\ \A i \in hits : /\ comments[i].id = jobs[b].existing
                              /\ comments[i].body = jobs[b].body

\* C2 (marker uniqueness): in every reachable state, interleaved jobs
\* included, at most one comment of the pull request carries a given marker.
C2_MarkerUnique ==
  \A m \in {PlanMarker, LintMarker} : Cardinality(WithMarker(m)) <= 1

\* C3 (one up-to-date comment per marker across pipelines): after a posting
\* plan run and a posting lint run for the same directory, in either order,
\* exactly one comment carries the plan marker and has the plan run's body,
\* and exactly one carries the lint marker and has the lint run's body.
C3_OneCommentPerPipeline ==
  \A a, b \in Jobs :
    ( /\ InSequence(a, b) \/ InSequence(b, a)
      /\ jobs[a].env.pipeline = "plan"
      /\ jobs[b].env.pipeline = "lint"
      /\ Upserted(jobs[a])
      /\ Upserted(jobs[b]) )
    => /\ Cardinality(WithMarker(PlanMarker)) = 1
       /\ \A i \in WithMarker(PlanMarker) : comments[i].body = jobs[a].body
       /\ Cardinality(WithMarker(LintMarker)) = 1
       /\ \A i \in WithMarker(LintMarker) : comments[i].body = jobs[b].body

\* A comment request the forge (or the network) failed; a delete answered 404
\* is "already gone", not a failure.
FailedCall(c) ==
  /\ c.op \in {"GET comments", "POST comment", "PATCH comment", "DELETE comment"}
  /\ c.status >= 400
  /\ ~(c.op = "DELETE comment" /\ c.status = 404)

\* C4 (remote failures never crash the run): a failed comment request is the
\* run's last request (no retry), the run ends with success status, and its
\* last log line is an error or warning annotation.
C4_RemoteFailuresCaught ==
  \A j \in Jobs :
    LET job == jobs[j]
    IN  \A i \in 1..Len(job.calls) :
          FailedCall(job.calls[i])
          => /\ i = Len(job.calls)
             /\ job.pc = "done"
             /\ Len(job.log) \in Alerts(job)

\* The repository slug is missing, or the token is missing while the run is
\* to post.
ConfigError(e) ==
  \/ ~e.slug
  \/ ~e.token /\ (e.pipeline = "lint" \/ e.create)

\* C5 (configuration errors precede all network activity): a run with a
\* configuration error never issues a request, the commit-to-pull-request
\* lookup included.
C5_ConfigErrorBeforeNetwork ==
  \A j \in Jobs :
    (jobs[j].pc # "idle" /\ ConfigError(jobs[j].env)) => jobs[j].calls = <<>>

\* C6 (delete mode of the lint pipeline): a delete-mode run with a resolved
\* pull request issues no create and no update; once it has located a comment
\* it ends only after a delete request for it, and a delete answered 204
\* leaves that comment gone; a run that located nothing, and a run whose
\* delete was answered 404, end with success status and no error or warning.
C6_DeleteMode ==
  \A j \in Jobs :
    LET job  == jobs[j]
        dels == {i \in 1..Len(job.calls) : job.calls[i].op = "DELETE comment"}
    IN  (job.env.pipeline = "lint" /\ job.env.del /\ job.pr # 0)
        => /\ \A i \in 1..Len(job.calls) :
                job.calls[i].op \notin {"POST comment", "PATCH comment"}
           /\ (Finished(j) /\ job.existing # 0) => dels = {Len(job.calls)}
           /\ \A i \in dels : job.calls[i].status = 204 => ~Live(job.existing)
           /\ (Finished(j) /\ job.existing = 0
                 /\ job.calls = <<[op |-> "GET comments", status |-> 200]>>)
              => job.pc = "done" /\ Alerts(job) = {}
           /\ \A i \in dels : job.calls[i].status = 404
                => job.pc = "done" /\ Alerts(job) = {}

\* Two delete-mode runs located the same comment; the slower one's delete was
\* answered 404 and it ended.
C6_Witness ==
  \E j \in Jobs :
    /\ jobs[j].env.del
    /\ jobs[j].pc = "done"
    /\ jobs[j].existing # 0
    /\ jobs[j].calls[Len(jobs[j].calls)] = [op |-> "DELETE comment", status |-> 404]

\* C9 (malformed event payload tolerance): a run that finds an unparseable
\* event payload does not crash and logs a warning; the plan pipeline goes on
\* to the commit lookup, the lint pipeline ends with the "no PR" notice and
\* no request.
C9_MalformedPayloadTolerated ==
  \A j \in Jobs :
    LET job == jobs[j]
    IN  ( /\ job.pc # "idle"
          /\ ~ImportFails(job.env)
          /\ job.env.event \in PrEvents
          /\ job.env.payload = "malformed" )
        => /\ job.pc # "crashed"
           /\ Logged(job, "::warning::Failed reading event payload")
           /\ (job.env.pipeline = "plan" /\ job.env.sha)
              => \/ job.pc = "lookup"
                 \/ job.calls # <<>> /\ job.calls[1].op = "GET pulls"
           /\ job.env.pipeline = "lint"
              => /\ job.pc = "done"
                 /\ Logged(job, "::notice::No PR number detected")
                 /\ job.calls = <<>>

(***************************************************************************)
(* SpecPaging: one call of find_existing_comment_id, a request per step.   *)
(* The pull request holds pg.n comments; those at the positions pg.marked  *)
(* carry the plan marker (and with it the directory name the lint lookup   *)
(* searches for).  The list does not change during the call.               *)
(***************************************************************************)
PER_PAGE == 100

MaxComments == 201

MarkedBody == <<"earlier plan ">> \o PlanMarker

\* The pull request's comments as the forge serves them, oldest first.
ServerList(n, marked) ==
  [i \in 1..n |-> Comment(10 * i, IF i \in marked THEN MarkedBody ELSE HumanPlain)]

\* GET .../comments?per_page=100&page=p
Page(list, p) ==
  LET from == (p - 1) * PER_PAGE + 1
      to   == IF p * PER_PAGE < Len(list) THEN p * PER_PAGE ELSE Len(list)
  IN  SubSeq(list, from, to)

\* list_all_comments stopping after the first page only.
LastPage_OffByOne(batch) == Len(batch) <= PER_PAGE

\* list_all_comments: `if len(batch) < 100: break`
LastPage(batch) == Len(batch) < PER_PAGE

\* Where a marked comment may lie: first, last, and on either side of every
\* page boundary.
MarkPositions(n) == {m \in 1..n : m = 1 \/ m = n \/ m % PER_PAGE \in {0, 1}}

InitPaging ==
  /\ \E n \in 0..MaxComments, pipeline \in {"plan", "lint"} :
       \E marked \in {{}} \cup {{m} : m \in MarkPositions(n)}
                         \cup {{m, n} : m \in MarkPositions(n)} :
         pg = [pc |-> "fetch", pipeline |-> pipeline, n |-> n, marked |-> marked,
               page |-> 1, comments |-> <<>>, result |-> 0]
  /\ comments = <<>>
  /\ nextId = 1
  /\ jobs = [j \in Jobs |-> NoJob]
  /\ dt = Idle
  /\ ps = Idle

\* What find_existing_comment_id returns once list_all_comments has returned.
Found(pipeline, list) ==
  IF pipeline = "plan" THEN PlanFindExisting(list, PlanMarker)
  ELSE LintFindExisting(list, WD)

\* One iteration of the while loop of list_all_comments; the iteration that
\* breaks also returns, and find_existing_comment_id scans the list.
FetchPage ==
  /\ pg.pc = "fetch"
  /\ LET batch == Page(ServerList(pg.n, pg.marked), pg.page)
         all   == pg.comments \o batch
     IN  pg' = IF batch = <<>>
                 THEN [pg EXCEPT !.pc = "done", !.result = Found(pg.pipeline, pg.comments)]
               ELSE IF LastPage(batch)
                 THEN [pg EXCEPT !.pc = "done", !.comments = all,
                                 !.result = Found(pg.pipeline, all)]
               ELSE [pg EXCEPT !.comments = all, !.page = @ + 1]
  /\ UNCHANGED <<comments, nextId, jobs, dt, ps>>

SpecPaging == InitPaging /\ [][FetchPage]_vars

\* C7 (pagination completeness): list_all_comments ends after draining every
\* page (one request per full page, and one more), returns every comment in
\* order, and find_existing_comment_id returns the id of the oldest comment
\* carrying the marker whatever its page, and none only when there is none.
C7_PaginationComplete ==
  /\ pg.pc \in {"fetch", "done"} => pg.page <= pg.n \div PER_PAGE + 1
  /\ pg.pc = "done"
     => /\ pg.page = pg.n \div PER_PAGE + 1
        /\ Len(pg.comments) = pg.n
        /\ \A i \in 1..pg.n : pg.comments[i].id = 10 * i
        /\ pg.marked = {} <=> pg.result = 0
        /\ \A m \in pg.marked :
             (\A k \in pg.marked : m <= k) => pg.result = 10 * m

\* The only marked comment lies on the third page and was found.
C7_Witness ==
  /\ pg.pc = "done"
  /\ pg.page = 3
  /\ pg.marked = {pg.n}
  /\ pg.result = 10 * pg.n

(***************************************************************************)
(* SpecDetails: one call of build_details_html, a loop iteration per step. *)
(* dt.files gives the number of issues of each file, in the order of the   *)
(* dict; dt.parts is the list `parts`, each element reduced to its tag.    *)
(***************************************************************************)
MAX_ROWS == 500

MaxFiles == 2

\* Issue counts a file may have: around the row cap, and small.
FileSizes == {1, MAX_ROWS - 1, MAX_ROWS, MAX_ROWS + 1}

DetailInputs == UNION {[1..n -> FileSizes] : n \in 0..MaxFiles}

InitDetails ==
  /\ \E files \in DetailInputs :
       dt = [pc |-> "start", files |-> files, file |-> 0, it |-> 0,
             row_count |-> 0, truncated |-> FALSE, parts |-> <<>>]
  /\ comments = <<>>
  /\ nextId = 1
  /\ jobs = [j \in Jobs |-> NoJob]
  /\ pg = Idle
  /\ ps = Idle

\* The lines after the outer loop: the truncation notice, the closing tags.
DetailsReturn(d) ==
  [d EXCEPT !.pc = "done",
            !.parts = (IF d.truncated THEN Append(d.parts, "<p>truncated</p>") ELSE d.parts)
                        \o <<"", "</details>", "">>]

\* The first lines of build_details_html, with the return for no files.
DetailsStart ==
  /\ dt.pc = "start"
  /\ LET opened == [dt EXCEPT !.parts = <<"<details>", "<summary>", "">>]
     IN  dt' = IF dt.files = <<>>
                 THEN [opened EXCEPT !.pc = "done",
                         !.parts = @ \o <<"_No issues to display._", "", "</details>", "">>]
               ELSE [opened EXCEPT !.pc = "file", !.file = 1]
  /\ UNCHANGED <<comments, nextId, jobs, pg, ps>>

\* The outer loop takes the next file and opens its block, or ends.
DetailsFile ==
  /\ dt.pc = "file"
  /\ dt' = IF dt.file > Len(dt.files) THEN DetailsReturn(dt)
           ELSE [dt EXCEPT !.pc = "row", !.it = 1,
                           !.parts = @ \o <<"file <details>", "<table>">>]
  /\ UNCHANGED <<comments, nextId, jobs, pg, ps>>

\* The block of a file is closed; `if truncated: break` ends the outer loop.
CloseFile(d) ==
  LET closed == [d EXCEPT !.parts = Append(@, "</tbody></table></details>")]
  IN  IF closed.truncated THEN DetailsReturn(closed)
      ELSE [closed EXCEPT !.pc = "file", !.file = @ + 1]

\* One iteration of the inner loop: a row, the break at the cap, or the end
\* of the file's issues.
DetailsRow ==
  /\ dt.pc = "row"
  /\ dt' = IF dt.it > dt.files[dt.file] THEN CloseFile(dt)
           ELSE IF dt.row_count >= MAX_ROWS
             THEN CloseFile([dt EXCEPT !.truncated = TRUE])
           ELSE [dt EXCEPT !.parts = Append(@, "<tr>"), !.row_count = @ + 1,
                           !.it = @ + 1]
  /\ UNCHANGED <<comments, nextId, jobs, pg, ps>>

NextDetails == DetailsStart \/ DetailsFile \/ DetailsRow

SpecDetails == InitDetails /\ [][NextDetails]_vars

Count(seq, tags) == Cardinality({i \in 1..Len(seq) : seq[i] \in tags})

TotalIssues(files) ==
  LET F[n \in 0..Len(files)] == IF n = 0 THEN 0 ELSE F[n - 1] + files[n]
  IN  F[Len(files)]

\* The elements of parts that follow the row that reached the cap.
AfterCap(parts) ==
  {i \in 1..Len(parts) : Count(SubSeq(parts, 1, i - 1), {"<tr>"}) >= MAX_ROWS}

\* C8 (truncation boundary): with more issues than the row cap the result
\* holds exactly cap-many rows and one truncation notice, no row and no file
\* block after the cap was reached, and as many closing as opening tags; with
\* at most cap-many issues every issue is a row and there is no notice.
C8_TruncationBoundary ==
  dt.pc = "done"
  => LET total == TotalIssues(dt.files)
         rows  == Count(dt.parts, {"<tr>"})
         notes == Count(dt.parts, {"<p>truncated</p>"})
     IN  /\ Count(dt.parts, {"<details>", "file <details>"})
              = Count(dt.parts, {"</details>", "</tbody></table></details>"})
         /\ Count(dt.parts, {"<table>"}) = Count(dt.parts, {"</tbody></table></details>"})
         /\ total > MAX_ROWS
            => /\ rows = MAX_ROWS
               /\ notes = 1
               /\ \A i \in AfterCap(dt.parts) : dt.parts[i] \notin {"<tr>", "file <details>"}
         /\ total <= MAX_ROWS => rows = total /\ notes = 0

(***************************************************************************)
(* SpecParse: parse_tflint_output on a lint text.  A text is a sequence of *)
(* lines; a line is a record saying what LINE_RE and the summary filter    *)
(* see in it.  File paths are sequences of code points, compared as Python *)
(* compares strings.                                                       *)
(***************************************************************************)
MaxLines == 3

\* "a.tf" and "B.tf"
PathA == <<97, 46, 116, 102>>

PathB == <<66, 46, 116, 102>>

\* The level words of the lint tool, and one that SEV_WEIGHT does not know.
Words == {"Error", "Warning", "Notice", "info", "Fatal"}

\* (line, column) pairs: enough to tell line-then-column from any other order.
Positions == {<<1, 1>>, <<1, 2>>, <<2, 1>>}

IssueLine(file, at, word) ==
  [kind |-> "issue", file |-> file, line |-> at[1], col |-> at[2], word |-> word]

IssueLines ==
  {IssueLine(PathA, at, w) : at \in Positions, w \in Words}
  \cup {IssueLine(PathB, <<1, 1>>, "Warning")}

\* A blank line, the tool's "3 issue(s) found" line, a line LINE_RE rejects.
OtherLines ==
  [kind : {"blank", "summary", "junk"}, file : {<<>>}, line : {0}, col : {0},
   word : {""}]

Texts == UNION {[1..n -> IssueLines \cup OtherLines] : n \in 0..MaxLines}

\* str.lower on one code point, and on a path.
LowerCode(c) == IF c \in 65..90 THEN c + 32 ELSE c

LowerPath(path) == [i \in 1..Len(path) |-> LowerCode(path[i])]

\* str.lower on a level word.
LowerWord(w) ==
  CASE w = "Error"   -> "error"
    [] w = "Warning" -> "warning"
    [] w = "Notice"  -> "notice"
    [] w = "Fatal"   -> "fatal"
    [] OTHER         -> w

\* s < t for Python strings: the first differing code point decides, and a
\* proper prefix is smaller.
StrLess(s, t) ==
  \E i \in 1..Len(t) :
    /\ i <= Len(s) + 1
    /\ \A k \in 1..(i - 1) : s[k] = t[k]
    /\ IF i = Len(s) + 1 THEN TRUE ELSE s[i] < t[i]

\* SEV_WEIGHT.get(level, 0)
SEV_WEIGHT(level) ==
  CASE level = "error"   -> 3
    [] level = "warning" -> 2
    [] level = "notice"  -> 1
    [] level = "info"    -> 1
    [] OTHER             -> 0

\* A sort key that forgets the column.
IssueKeyLess_NoCol(x, y) ==
  \/ SEV_WEIGHT(x.level) > SEV_WEIGHT(y.level)
  \/ SEV_WEIGHT(x.level) = SEV_WEIGHT(y.level) /\ x.line < y.line

\* key(x) < key(y) for key = (-SEV_WEIGHT.get(level, 0), line, col)
IssueKeyLess(x, y) ==
  LET wx == 0 - SEV_WEIGHT(x.level)
      wy == 0 - SEV_WEIGHT(y.level)
  IN  \/ wx < wy
      \/ wx = wy /\ x.line < y.line
      \/ wx = wy /\ x.line = y.line /\ x.col < y.col

\* key(a) < key(b) for key = kv[0].lower()
FileKeyLess(a, b) == StrLess(LowerPath(a.file), LowerPath(b.file))

\* list.sort / sorted: stable, so an element goes behind its equals.  less
\* holds the pairs <<i, k>> of positions with key(seq[i]) < key(seq[k]).
StableSort(seq, less) ==
  LET Insert(s, n) ==
        LET later == {p \in 1..Len(s) : <<n, s[p]>> \in less}
        IN  IF later = {} THEN Append(s, n)
            ELSE LET at == CHOOSE p \in later : \A q \in later : p <= q
                 IN  SubSeq(s, 1, at - 1) \o <<n>> \o SubSeq(s, at, Len(s))
      F[n \in 0..Len(seq)] == IF n = 0 THEN <<>> ELSE Insert(F[n - 1], n)
  IN  [p \in 1..Len(seq) |-> seq[F[Len(seq)][p]]]

SortIssues(issues) ==
  StableSort(issues, {pr \in (1..Len(issues)) \X (1..Len(issues)) :
                        IssueKeyLess(issues[pr[1]], issues[pr[2]])})

SortFiles(files) ==
  StableSort(files, {pr \in (1..Len(files)) \X (1..Len(files)) :
                       FileKeyLess(files[pr[1]], files[pr[2]])})

\* The line is skipped before LINE_RE is tried, or LINE_RE rejects it.
Dropped(raw) == raw.kind \in {"blank", "summary", "junk"}

\* files.setdefault(file, []).append(issue), on a dict in insertion order
AddIssue(files, file, issue) ==
  IF \E i \in 1..Len(files) : files[i].file = file
    THEN [i \in 1..Len(files) |->
            IF files[i].file = file
              THEN [files[i] EXCEPT !.issues = Append(@, issue)]
              ELSE files[i]]
    ELSE Append(files, [file |-> file, issues |-> <<issue>>])

IssueOf(raw) == [line |-> raw.line, col |-> raw.col, level |-> LowerWord(raw.word)]

\* The first loop of parse_tflint_output.
Grouped(text) ==
  LET F[n \in 0..Len(text)] ==
        IF n = 0 THEN <<>>
        ELSE IF Dropped(text[n]) THEN F[n - 1]
        ELSE AddIssue(F[n - 1], text[n].file, IssueOf(text[n]))
  IN  F[Len(text)]

\* parse_tflint_output: the dict as the sequence of its items.
parse_tflint_output(text) ==
  LET files  == Grouped(text)
      sorted == [i \in 1..Len(files) |-> [files[i] EXCEPT !.issues = SortIssues(@)]]
  IN  SortFiles(sorted)

InitParse ==
  /\ \E text \in Texts :
       ps = [pc |-> "text", text |-> text, files |-> <<>>,
             totals |-> [error |-> 0, warning |-> 0, info |-> 0, total |-> 0]]
  /\ comments = <<>>
  /\ nextId = 1
  /\ jobs = [j \in Jobs |-> NoJob]
  /\ pg = Idle
  /\ dt = Idle

\* main: files = parse_tflint_output(TFLINT_OUTPUT or "")
Parse ==
  /\ ps.pc = "text"
  /\ ps' = [ps EXCEPT !.pc = "parsed", !.files = parse_tflint_output(ps.text)]
  /\ UNCHANGED <<comments, nextId, jobs, pg, dt>>

\* Every issue of every file, file after file: the two loops of
\* totals_from_files.
AllIssues(files) ==
  LET F[n \in 0..Len(files)] == IF n = 0 THEN <<>> ELSE F[n - 1] \o files[n].issues
  IN  F[Len(files)]

\* t.get(level, 0) once the loops of totals_from_files have run: t gets a key
\* for every level it meets, the four it starts with or not.
Tally(files, level) ==
  LET all == AllIssues(files)
  IN  Cardinality({i \in 1..Len(all) : all[i].level = level})

\* totals_from_files: notice is folded into info, and total is the sum of the
\* error, warning and info entries.
totals_from_files(files) ==
  LET error   == Tally(files, "error")
      warning == Tally(files, "warning")
      info    == Tally(files, "info") + Tally(files, "notice")
  IN  [error |-> error, warning |-> warning, info |-> info,
       total |-> error + warning + info]

\* main: totals = totals_from_files(files)
Totals ==
  /\ ps.pc = "parsed"
  /\ ps' = [ps EXCEPT !.pc = "totalled", !.totals = totals_from_files(ps.files)]
  /\ UNCHANGED <<comments, nextId, jobs, pg, dt>>

NextParse == Parse \/ Totals

SpecParse == InitParse /\ [][NextParse]_vars

\* The order the claim gives: error before warning before notice and info,
\* any other word last; then by line, then by column.
Rank(level) ==
  CASE level = "error" -> 3 [] level = "warning" -> 2
    [] level \in {"notice", "info"} -> 1 [] OTHER -> 0

InOrder(a, b) ==
  \/ Rank(a.level) > Rank(b.level)
  \/ /\ Rank(a.level) = Rank(b.level)
     /\ \/ a.line < b.line
        \/ a.line = b.line /\ a.col <= b.col

IssueLinesOf(text) == {n \in 1..Len(text) : text[n].kind = "issue"}

\* C10 (issue ordering): in the parser's result every file's issues are in
\* severity order (descending weight), then line, then column; the files are
\* in case-insensitive path order, each path once; no issue is lost; and
\* sorting a file's issues again leaves them as they are.
C10_IssueOrdering ==
  ps.pc = "parsed"
  => LET files == ps.files
     IN  /\ \A f \in 1..Len(files) :
              /\ \A i, k \in 1..Len(files[f].issues) :
                   i < k => InOrder(files[f].issues[i], files[f].issues[k])
              /\ SortIssues(files[f].issues) = files[f].issues
              /\ Len(files[f].issues)
                   = Cardinality({n \in IssueLinesOf(ps.text) :
                                    ps.text[n].file = files[f].file})
         /\ \A f, g \in 1..Len(files) :
              f < g => /\ files[f].file # files[g].file
                       /\ ~StrLess(LowerPath(files[g].file), LowerPath(files[f].file))
         /\ \A n \in IssueLinesOf(ps.text) :
              \E f \in 1..Len(files) : files[f].file = ps.text[n].file

\* A text naming B.tf before a.tf, with a.tf's issues out of order: both the
\* files and a.tf's issues come out rearranged.
C10_Witness ==
  /\ ps.pc = "parsed"
  /\ Len(ps.text) = 3
  /\ ps.text[1].file = PathB
  /\ Len(ps.files) = 2
  /\ ps.files[1].file = PathA
  /\ ps.files[1].issues = <<IssueOf(ps.text[3]), IssueOf(ps.text[2])>>
  /\ IssueOf(ps.text[3]) # IssueOf(ps.text[2])

\* C11 (totals account for every parsed issue): for every lint text and every
\* level word the line pattern accepts, the totals of the parser's result have
\* total = error + warning + info, info counts the info and the notice
\* issues, and total is the number of issues the parser produced.
C11_TotalsAccountForIssues ==
  ps.pc = "totalled"
  => LET parsed == IssueLinesOf(ps.text)
     IN  /\ ps.totals.total = ps.totals.error + ps.totals.warning + ps.totals.info
         /\ ps.totals.info
              = Cardinality({n \in parsed :
                               LowerWord(ps.text[n].word) \in {"info", "notice"}})
         /\ ps.totals.total = Cardinality(parsed)
         /\ ps.totals.total = Len(AllIssues(ps.files))

====
